---------------------------- MODULE Spec2Model ----------------------------
(***************************************************************************)
(* copiar -- GitHub activity mirror (src/copiar.py).                       *)
(*                                                                         *)
(* The model follows main(): fetch the source account's contribution       *)
(* calendar in windows of at most 365 days, make sure the mirror           *)
(* repository exists, prepare a working copy (reuse + pull, clone or       *)
(* init), load the per-day commit counts, compute the delta, create the    *)
(* backdated empty commits, push, and clean up.  Runs repeat against the   *)
(* same remote and the same persistent directory.                          *)
(*                                                                         *)
(* Calendar days are proleptic Gregorian ordinals (date.toordinal()), a    *)
(* commit timestamp is an instant in hours since ordinal 0 together with   *)
(* the UTC offset (hours) it was recorded with, as git stores it.          *)
(***************************************************************************)
EXTENDS Integers, Sequences, FiniteSets, TLC

VARIABLES
    calendar,       \* source account: day -> contribution count
    remoteExists,   \* the mirror repository exists on the hosting service
    remote,         \* its default-branch history, oldest commit first
    remote0,        \* per-day counts of the remote before the first run
    pdir,           \* the caller-supplied persistent directory
    tdir,           \* the temporary directory of the current run
    runs,           \* number of runs started so far
    cfg,            \* Config of the current run
    pc,             \* position of the current run in main()
    outcome,        \* how the current run ended (or "running")
    chunk_start,    \* fetch_contributions: chunk_start
    merged,         \* fetch_contributions: merged
    windows,        \* windows queried so far in this run (history)
    contributions,  \* main: contributions (the target map)
    has_commits,    \* main: repo_has_commits (metadata heuristic)
    repo_dir,       \* main: repo_dir   ("none" | "P" | "T")
    temp_dir,       \* main: temp_dir   ("none" | "T")
    existing,       \* main: existing
    needed,         \* main: needed
    wc0,            \* history: working-copy commits when existing was loaded
    created,        \* history: commits created by this run, in order
    stages,         \* history: later stages this run has entered
    trace,          \* history: notable events of this run
    answer,         \* main: what was typed at the prompt, as characters
    prev            \* history: summary of the previous run

vars == << calendar, remoteExists, remote, remote0, pdir, tdir, runs, cfg, pc,
           outcome, chunk_start, merged, windows, contributions, has_commits,
           repo_dir, temp_dir, existing, needed, wc0, created, stages, trace,
           answer, prev >>

-----------------------------------------------------------------------------
(* Bounds of the model.                                                    *)

\* Runs of the tool against the same destination.
MaxRuns == 2
\* Largest contribution count of a day in the pipeline specification.
MaxCount == 2
\* Commits already in the remote before the first run.
MaxInit == 1
\* Longest date range (end - start) of the window specification.
MaxSpan == 800
\* Largest per-day count of the reconcile specification.
MaxTarget == 3

-----------------------------------------------------------------------------
(* Dates: datetime.date as used by load_config and fetch_contributions.    *)

IsLeap(y) == (y % 4 = 0) /\ ((y % 100 # 0) \/ (y % 400 = 0))

DaysInMonth(y, m) ==
    IF m = 2 THEN (IF IsLeap(y) THEN 29 ELSE 28)
    ELSE IF m \in {4, 6, 9, 11} THEN 30 ELSE 31

RECURSIVE DaysBeforeMonth(_, _)
DaysBeforeMonth(y, m) ==
    IF m = 1 THEN 0 ELSE DaysBeforeMonth(y, m - 1) + DaysInMonth(y, m - 1)

DaysBeforeYear(y) ==
    (y - 1) * 365 + ((y - 1) \div 4) - ((y - 1) \div 100) + ((y - 1) \div 400)

\* date.fromisoformat("y-m-d") as an ordinal
Ord(y, m, d) == DaysBeforeYear(y) + DaysBeforeMonth(y, m) + d

Min(a, b) == IF a <= b THEN a ELSE b

\* timedelta(days=364): a window is chunk_start .. chunk_start + 364
ChunkDelta == 364

\* The days the source account may have contributions on: two adjacent days
\* and one day a year later, so that ranges of one, two and three windows
\* hold contributions in different windows.
D1 == Ord(2024, 1, 1)
D2 == Ord(2024, 1, 2)
D3 == Ord(2025, 1, 1)
CalDays == {D1, D2, D3}

EmptyMap == [d \in {} |-> 0]

Get(m, d) == IF d \in DOMAIN m THEN m[d] ELSE 0

\* dict.update
Update(m, c) ==
    [d \in DOMAIN m \cup DOMAIN c |-> IF d \in DOMAIN c THEN c[d] ELSE m[d]]


-----------------------------------------------------------------------------
(* Commits and histories.  A history is the sequence of commits reachable  *)
(* from the branch head, oldest first.  Git identifies a commit by its     *)
(* content and its parent, so two histories share a commit exactly when    *)
(* they agree on the whole sequence up to it.                              *)

\* Wall-clock time of the runs (datetime.now / git's default committer date).
Today == Ord(2026, 1, 2)
NowHours == Today * 24 + 9

\* create_commits_for_day: timestamp = f"{day}T12:00:00+00:00", used for
\* GIT_AUTHOR_DATE and GIT_COMMITTER_DATE; message "mirror: {day} ({i}/{count})".
NoonHour == 12
UtcOffset == 0
\* Variant: GIT_COMMITTER_DATE is not passed, the committer date is now.
MirrorCommitAuthorOnly(day, i, count) ==
    [ at  |-> day * 24 + NoonHour, atz |-> UtcOffset,
      ct  |-> NowHours, ctz |-> UtcOffset,
      msg |-> << day, i, count >> ]

\* Variant: GIT_AUTHOR_DATE is not passed, the author date is now.
MirrorCommitCommitterOnly(day, i, count) ==
    [ at  |-> NowHours, atz |-> UtcOffset,
      ct  |-> day * 24 + NoonHour, ctz |-> UtcOffset,
      msg |-> << day, i, count >> ]

MirrorCommit(day, i, count) ==
    [ at  |-> day * 24 + NoonHour, atz |-> UtcOffset,
      ct  |-> day * 24 + NoonHour, ctz |-> UtcOffset,
      msg |-> << day, i, count >> ]

\* A commit somebody else put in the mirror repository on that day.
ForeignCommit(day) ==
    [ at  |-> day * 24 + NoonHour, atz |-> UtcOffset,
      ct  |-> day * 24 + NoonHour, ctz |-> UtcOffset,
      msg |-> << 0, 0, 0 >> ]

\* Variant: the date is shown in the machine's time zone (format-local).
LogDayLocal(c) == (c.at + cfg.tz) \div 24

\* git log --format=%ad --date=format:%Y-%m-%d : the author date, shown in
\* the time zone recorded with it.
LogDay(c) == (c.at + c.atz) \div 24

CountOn(h, d) == Cardinality({ i \in 1..Len(h) : LogDay(h[i]) = d })

\* load_existing_commits: {} when HEAD does not resolve, else the tally of
\* the log lines.
LoadExisting(h) ==
    [ d \in { LogDay(h[i]) : i \in 1..Len(h) } |-> CountOn(h, d) ]

\* Variant: the filter keeps the days whose difference is zero.
DeltaKeepsZero(target, ex) ==
    [ d \in { x \in DOMAIN target : target[x] - Get(ex, x) >= 0 }
        |-> target[d] - Get(ex, d) ]

\* Variant: the existing counts are not subtracted.
DeltaIgnoresExisting(target, ex) ==
    [ d \in { x \in DOMAIN target : target[x] > 0 } |-> target[d] ]

\* main: needed = {day: target - existing.get(day, 0) ... if ... > 0}
Delta(target, ex) ==
    [ d \in { x \in DOMAIN target : target[x] - Get(ex, x) > 0 }
        |-> target[d] - Get(ex, d) ]

\* sum(needed.values())
RECURSIVE SumOver(_, _)
SumOver(m, S) ==
    IF S = {} THEN 0
    ELSE LET d == CHOOSE x \in S : TRUE IN m[d] + SumOver(m, S \ {d})
Total(m) == SumOver(m, DOMAIN m)

IsPrefix(a, b) == Len(a) <= Len(b) /\ SubSeq(b, 1, Len(a)) = a

\* Length of the longest common prefix: the merge base of two histories.
RECURSIVE CommonLen(_, _, _)
CommonLen(a, b, n) ==
    IF n < Len(a) /\ n < Len(b) /\ a[n + 1] = b[n + 1]
    THEN CommonLen(a, b, n + 1) ELSE n

\* A commit replayed by rebase keeps its author date and message and gets
\* the current time, in the machine's time zone, as committer date.
Replayed(c) == [ c EXCEPT !.ct = NowHours, !.ctz = cfg.tz ]

\* Variant: the local branch is reset to the remote one.
PullResets(local, rem) == rem

\* Variant: nothing is fetched, the local branch stays as it is.
PullKeepsLocal(local, rem) == local

\* git pull --rebase origin, when it succeeds: nothing to do when the local
\* history already contains the remote one, a fast-forward when the remote
\* contains the local one, otherwise the local-only commits (empty commits
\* are kept) are replayed on top of the remote history.
PullRebase(local, rem) ==
    LET n == CommonLen(local, rem, 0) IN
    IF n = Len(rem) THEN local
    ELSE IF n = Len(local) THEN rem
    ELSE rem \o [ i \in 1..(Len(local) - n) |-> Replayed(local[n + i]) ]

\* git push origin <branch> without force is accepted only as a fast-forward.
PushAccepted(local, rem) == IsPrefix(rem, local)

NoDir == [ exists |-> FALSE, git |-> FALSE, tracking |-> FALSE, commits |-> << >> ]

-----------------------------------------------------------------------------
(* Config (the fields the pipeline reads), and with it the time zone of    *)
(* the machine (TZ in os.environ, handed on to git by run_git) as a UTC    *)
(* offset in hours.                                                        *)

\* The machine offsets: the westernmost, UTC and the easternmost.
MachineOffsets == {-12, 0, 14}

\* Last day of a range of three windows starting at D1.
E3 == Ord(2026, 1, 1)

Ranges == { << D1, D2 >>, << D1, E3 >> }

\* The Configs a run is started with.  --keep-repo is only read for a
\* temporary directory and a dry run returns before any other flag is
\* read, so the combinations that differ in an unread flag are left out.
\* The runs of the pipeline specification are on a machine set to UTC.
Configs ==
    { c \in [ local_dir : {"none", "P"}, dry_run : BOOLEAN, yes : BOOLEAN,
              keep_repo : BOOLEAN, start : {D1}, end : {D2, E3}, tz : {0} ] :
        /\ << c.start, c.end >> \in Ranges
        /\ (c.local_dir = "P" => ~c.keep_repo)
        /\ (c.dry_run => c.local_dir = "none" /\ ~c.keep_repo /\ ~c.yes) }

NoConfig ==
    [ local_dir |-> "none", dry_run |-> FALSE, yes |-> FALSE,
      keep_repo |-> FALSE, start |-> D1, end |-> D1, tz |-> 0 ]

NoPrev ==
    [ local_dir |-> "none", start |-> D1, end |-> D1, outcome |-> "none",
      created |-> << >> ]

-----------------------------------------------------------------------------
(* ContributionFetcher: fetch_contributions and _fetch_contributions_chunk *)

\* What the calendar query returns for one window: the days of the window
\* with a positive count.
FetchContributionsChunk(start, end) ==
    [ d \in { x \in CalDays : start <= x /\ x <= end /\ calendar[x] > 0 }
        |-> calendar[d] ]

\* Variant: the window is one day too long.
ChunkEndLong(cs, end) == Min(end, cs + ChunkDelta + 1)

\* chunk_end = min(end, chunk_start + timedelta(days=364))
ChunkEnd(cs, end) == Min(end, cs + ChunkDelta)

\* Variant: the next window starts two days after the previous one ends.
NextChunkStartSkips(ce) == ce + 2

\* chunk_start = chunk_end + timedelta(days=1)
NextChunkStart(ce) == ce + 1

\* _graphql: 401, HTTP error, "errors" in the answer; chunk: user is None.
FetchErrors == {"auth", "http", "query", "not_found"}

restOfRun == << contributions, has_commits, repo_dir, temp_dir, existing,
                needed, wc0, created, stages, trace >>
world == << calendar, remoteExists, remote, remote0, pdir, tdir >>

\* One iteration of the while loop whose query succeeds.
FetchChunkOk ==
    /\ pc = "fetch"
    /\ chunk_start <= cfg.end
    /\ LET ce == ChunkEnd(chunk_start, cfg.end) IN
         /\ windows' = Append(windows, << chunk_start, ce >>)
         /\ merged' = Update(merged, FetchContributionsChunk(chunk_start, ce))
         /\ chunk_start' = NextChunkStart(ce)
    /\ UNCHANGED << world, runs, cfg, pc, outcome, restOfRun, prev,
                    answer >>

\* Variant: the failed window is reported and skipped, the loop goes on.
FetchChunkFailSkips ==
    /\ pc = "fetch"
    /\ chunk_start <= cfg.end
    /\ windows' = Append(windows, << chunk_start, ChunkEnd(chunk_start, cfg.end) >>)
    /\ chunk_start' = NextChunkStart(ChunkEnd(chunk_start, cfg.end))
    /\ outcome' = "fetch_failed"
    /\ UNCHANGED << world, runs, cfg, pc, merged, restOfRun, prev,
                    answer >>

\* One iteration whose query fails: sys.exit(1) or an HTTPError, outside
\* any try block.
FetchChunkFail ==
    /\ pc = "fetch"
    /\ chunk_start <= cfg.end
    /\ \E e \in FetchErrors :
         /\ windows' = Append(windows, << chunk_start, ChunkEnd(chunk_start, cfg.end) >>)
         /\ outcome' = "fetch_failed"
         /\ pc' = "ended"
    /\ UNCHANGED << world, runs, cfg, chunk_start, merged, contributions,
                    has_commits, repo_dir, temp_dir, existing, needed, wc0,
                    created, stages, trace, prev, answer >>

\* Variant: the dry-run flag is not looked at after the fetch.
FetchReturnIgnoresDryRun ==
    /\ pc = "fetch"
    /\ chunk_start > cfg.end
    /\ contributions' = merged
    /\ IF merged = EmptyMap
         THEN pc' = "ended" /\ outcome' = "no_contributions"
         ELSE pc' = "ensure" /\ outcome' = outcome
    /\ UNCHANGED << world, runs, cfg, chunk_start, merged, windows,
                    has_commits, repo_dir, temp_dir, existing, needed, wc0,
                    created, stages, trace, prev, answer >>

\* The loop ends; main returns early on an empty map and in dry-run mode.
FetchReturn ==
    /\ pc = "fetch"
    /\ chunk_start > cfg.end
    /\ contributions' = merged
    /\ IF merged = EmptyMap
         THEN pc' = "ended" /\ outcome' = "no_contributions"
         ELSE IF cfg.dry_run
           THEN pc' = "ended" /\ outcome' = "dry_run"
           ELSE pc' = "ensure" /\ outcome' = outcome
    /\ UNCHANGED << world, runs, cfg, chunk_start, merged, windows,
                    has_commits, repo_dir, temp_dir, existing, needed, wc0,
                    created, stages, trace, prev, answer >>

\* The source calendars: up to MaxCount contributions on the first day,
\* at most one on the second, one on the day a year later.
Calendars ==
    { c \in [ CalDays -> 0..MaxCount ] : c[D2] <= 1 /\ c[D3] = 1 }

\* The state shared by every specification before a run starts.
Fresh ==
    /\ runs = 0
    /\ cfg = NoConfig
    /\ pc = "ended"
    /\ outcome = "none"
    /\ chunk_start = D1
    /\ merged = EmptyMap
    /\ windows = << >>
    /\ contributions = EmptyMap
    /\ has_commits = FALSE
    /\ repo_dir = "none"
    /\ temp_dir = "none"
    /\ existing = EmptyMap
    /\ needed = EmptyMap
    /\ wc0 = << >>
    /\ created = << >>
    /\ stages = {}
    /\ trace = {}
    /\ answer = << >>
    /\ prev = NoPrev
    /\ pdir = NoDir
    /\ tdir = NoDir

-----------------------------------------------------------------------------
(* The window specification: fetch_contributions alone, over every range   *)
(* [start, end] with start <= end <= start + MaxSpan.                      *)

ChunkStarts == { Ord(2023, 1, 1), D1 }

InitChunk ==
    /\ calendar \in { [ d \in CalDays |-> 1 ] }
    /\ remoteExists = FALSE
    /\ remote = << >>
    /\ remote0 = EmptyMap
    /\ pdir = NoDir
    /\ tdir = NoDir
    /\ runs = 1
    /\ \E s \in ChunkStarts : \E n \in 0..MaxSpan :
         /\ cfg = [ NoConfig EXCEPT !.start = s, !.end = s + n ]
         /\ chunk_start = s
    /\ pc = "fetch"
    /\ outcome = "running"
    /\ merged = EmptyMap
    /\ windows = << >>
    /\ contributions = EmptyMap
    /\ has_commits = FALSE
    /\ repo_dir = "none"
    /\ temp_dir = "none"
    /\ existing = EmptyMap
    /\ needed = EmptyMap
    /\ wc0 = << >>
    /\ created = << >>
    /\ stages = {}
    /\ trace = {}
    /\ answer = << >>
    /\ prev = NoPrev

NextChunk == FetchChunkOk \/ FetchChunkFail \/ FetchReturn

SpecChunk == InitChunk /\ [][NextChunk]_vars

\* The loop is sequential code: while it can take a step it does.
SpecChunkFair == SpecChunk /\ WF_vars(NextChunk)


-----------------------------------------------------------------------------
(* RepoStateResolver: ensure_repo_exists and prepare_local_repo            *)

fetchState == << chunk_start, merged, windows, contributions >>
deltaState == << existing, needed, wc0, created >>

\* GET /repos/{user}/{repo} answers 200: has_commits is read off the
\* repository metadata (size, default_branch, pushed_at), which the hosting
\* service maintains on its own and which may disagree with the history.
EnsureRepoFound ==
    /\ pc = "ensure"
    /\ remoteExists
    /\ \E h \in BOOLEAN : has_commits' = h
    /\ stages' = stages \cup {"ensure"}
    /\ pc' = "prepare"
    /\ UNCHANGED << world, runs, cfg, outcome, fetchState, repo_dir, temp_dir,
                    deltaState, trace, prev, answer >>

\* GET answers 404 and the POST /user/repos succeeds: has_commits = False.
EnsureRepoCreate ==
    /\ pc = "ensure"
    /\ ~remoteExists
    /\ remoteExists' = TRUE
    /\ has_commits' = FALSE
    /\ stages' = stages \cup {"ensure"}
    /\ trace' = trace \cup {"create_call"}
    /\ pc' = "prepare"
    /\ UNCHANGED << calendar, remote, remote0, pdir, tdir, runs, cfg, outcome,
                    fetchState, repo_dir, temp_dir, deltaState, prev,
                    answer >>

\* Variant: after a name conflict the repository is created under another
\* name and the run goes on.
EnsureRepoCreateFailRetries ==
    /\ pc = "ensure"
    /\ ~remoteExists
    /\ trace' = trace \cup {"create_call", "conflict_422"}
    /\ remoteExists' = TRUE
    /\ has_commits' = FALSE
    /\ stages' = stages \cup {"ensure"}
    /\ pc' = "prepare"
    /\ UNCHANGED << calendar, remote, remote0, pdir, tdir, runs, cfg, outcome,
                    fetchState, repo_dir, temp_dir, deltaState, prev,
                    answer >>

\* The POST answers 422 (sys.exit(1)) or another error status
\* (raise_for_status); nothing is retried.
EnsureRepoCreateFail ==
    /\ pc = "ensure"
    /\ ~remoteExists
    /\ \E e \in {"conflict_422", "create_http_error"} :
         trace' = trace \cup {"create_call", e}
    /\ stages' = stages \cup {"ensure"}
    /\ outcome' = "ensure_failed"
    /\ pc' = "ended"
    /\ UNCHANGED << world, runs, cfg, fetchState, has_commits, repo_dir,
                    temp_dir, deltaState, prev, answer >>

\* The GET answers neither 200 nor 404: sys.exit(1).
EnsureRepoCheckFail ==
    /\ pc = "ensure"
    /\ stages' = stages \cup {"ensure"}
    /\ trace' = trace \cup {"check_error"}
    /\ outcome' = "ensure_failed"
    /\ pc' = "ended"
    /\ UNCHANGED << world, runs, cfg, fetchState, has_commits, repo_dir,
                    temp_dir, deltaState, prev, answer >>

\* _repo_has_remote_commits: GET .../commits?per_page=1; 409 and 404 mean no
\* history, otherwise whether the list is non-empty.
RepoHasRemoteCommits == remoteExists /\ Len(remote) > 0

\* repo_has_commits or _repo_has_remote_commits(...): the listing is only
\* queried when the heuristic says no.
ActuallyHasCommits == has_commits \/ RepoHasRemoteCommits
ListingQueried == IF has_commits THEN {} ELSE {"listing_queried"}

\* The reuse branch applies to a persistent directory that is a work tree.
Reuse == cfg.local_dir = "P" /\ pdir.git

\* git pull --rebase origin succeeds only when the current branch tracks a
\* remote branch (set up by clone, not by init + remote add) and that branch
\* exists on the remote.
PullPossible == pdir.tracking /\ Len(remote) > 0

\* Reuse branch, every command succeeding.
PrepareReuse ==
    /\ pc = "prepare"
    /\ Reuse
    /\ IF ActuallyHasCommits
         THEN /\ PullPossible
              /\ pdir' = [ pdir EXCEPT !.commits = PullRebase(pdir.commits, remote) ]
              /\ trace' = trace \cup ListingQueried \cup {"pull"}
         ELSE /\ pdir' = pdir
              /\ trace' = trace \cup ListingQueried
    /\ repo_dir' = "P"
    /\ stages' = stages \cup {"prepare"}
    /\ pc' = "load"
    /\ UNCHANGED << calendar, remoteExists, remote, remote0, tdir, runs, cfg,
                    outcome, fetchState, has_commits, temp_dir, deltaState, prev,
                    answer >>

\* Variant: clone only when the heuristic and the listing both report
\* history.
FreshDirAnd(d) ==
    IF has_commits /\ RepoHasRemoteCommits
    THEN [ exists |-> TRUE, git |-> TRUE, tracking |-> TRUE, commits |-> remote ]
    ELSE [ exists |-> TRUE, git |-> TRUE, tracking |-> FALSE, commits |-> << >> ]

\* The directory the non-reuse branch works in: local_dir after mkdir, or
\* a new tempfile.mkdtemp directory.
FreshDir(d) ==
    IF ActuallyHasCommits
    THEN \* git clone remote_url repo_dir
         [ exists |-> TRUE, git |-> TRUE, tracking |-> TRUE, commits |-> remote ]
    ELSE \* git init -b main; git remote add origin remote_url
         [ exists |-> TRUE, git |-> TRUE, tracking |-> FALSE, commits |-> << >> ]

\* Non-reuse branch, every command succeeding; main then sets temp_dir when
\* no local_dir was given.
PrepareFresh ==
    /\ pc = "prepare"
    /\ ~Reuse
    /\ IF cfg.local_dir = "P"
         THEN /\ pdir' = FreshDir(pdir)
              /\ tdir' = tdir
              /\ repo_dir' = "P"
              /\ temp_dir' = "none"
         ELSE /\ tdir' = FreshDir(tdir)
              /\ pdir' = pdir
              /\ repo_dir' = "T"
              /\ temp_dir' = "T"
    /\ trace' = trace \cup ListingQueried
                  \cup (IF ActuallyHasCommits THEN {"clone"} ELSE {"init"})
    /\ stages' = stages \cup {"prepare"}
    /\ pc' = "load"
    /\ UNCHANGED << calendar, remoteExists, remote, remote0, runs, cfg, outcome,
                    fetchState, has_commits, deltaState, prev, answer >>

\* prepare_local_repo does not return: the listing raises, pull / clone /
\* init / remote add fails, or the user interrupts ("early": the directory
\* exists but no working copy was made), or configure_git fails ("late":
\* the working copy was made).  repo_dir and temp_dir keep their None.
PrepareFail ==
    /\ pc = "prepare"
    /\ \E when \in {"early", "late"} : \E why \in {"git_failed", "interrupted"} :
         /\ IF Reuse
              THEN /\ tdir' = tdir
                   /\ pdir' = IF when = "late" /\ ActuallyHasCommits /\ PullPossible
                              THEN [ pdir EXCEPT !.commits = PullRebase(pdir.commits, remote) ]
                              ELSE pdir
              ELSE IF cfg.local_dir = "P"
                THEN /\ tdir' = tdir
                     /\ pdir' = IF when = "late" THEN FreshDir(pdir)
                                ELSE [ pdir EXCEPT !.exists = TRUE ]
                ELSE /\ pdir' = pdir
                     /\ tdir' = IF when = "late" THEN FreshDir(tdir)
                                ELSE [ tdir EXCEPT !.exists = TRUE ]
         /\ outcome' = why
         /\ trace' = trace \cup {"prepare_" \o when}
    /\ stages' = stages \cup {"prepare"}
    /\ pc' = "finally"
    /\ UNCHANGED << calendar, remoteExists, remote, remote0, runs, cfg,
                    fetchState, has_commits, repo_dir, temp_dir, deltaState, prev,
                    answer >>

-----------------------------------------------------------------------------
(* DeltaComputer, confirmation, CommitEmitter, Pusher, cleanup (main)      *)

\* The commits of the working copy main works on.
Wc == IF repo_dir = "P" THEN pdir.commits ELSE tdir.commits

\* existing = load_existing_commits(repo_dir); needed = {...}; an empty
\* delta ends the run with "Mirror is already up to date."
LoadAndDelta ==
    /\ pc = "load"
    /\ existing' = LoadExisting(Wc)
    /\ needed' = Delta(contributions, existing')
    /\ wc0' = Wc
    /\ stages' = stages \cup {"load"}
    /\ IF needed' = EmptyMap
         THEN pc' = "finally" /\ outcome' = "up_to_date"
         ELSE pc' = "confirm" /\ outcome' = outcome
    /\ UNCHANGED << world, runs, cfg, fetchState, has_commits, repo_dir,
                    temp_dir, created, trace, prev, answer >>

\* git log fails in load_existing_commits: run_git calls sys.exit(1) before
\* existing is assigned.
LoadFail ==
    /\ pc = "load"
    /\ outcome' = "git_failed"
    /\ trace' = trace \cup {"load_failed"}
    /\ pc' = "finally"
    /\ UNCHANGED << world, runs, cfg, fetchState, has_commits, repo_dir,
                    temp_dir, deltaState, stages, prev, answer >>

\* What the operator may type at "Proceed? [y/N] ", character by
\* character: y, yes, yes in mixed case between blanks, nothing, N, ye,
\* and y es with a blank inside.
Answers ==
    { << "y" >>, << "y", "e", "s" >>, << " ", "Y", "e", "S", "\t" >>,
      << >>, << "N" >>, << "y", "e" >>, << "y", " ", "e", "s" >> }

\* str.strip(): leading and trailing whitespace is removed.
Whitespace == { " ", "\t" }

RECURSIVE StripLeft(_)
StripLeft(s) ==
    IF s # << >> /\ Head(s) \in Whitespace THEN StripLeft(Tail(s)) ELSE s

RECURSIVE StripRight(_)
StripRight(s) ==
    IF s # << >> /\ s[Len(s)] \in Whitespace
    THEN StripRight(SubSeq(s, 1, Len(s) - 1)) ELSE s

Strip(s) == StripRight(StripLeft(s))

\* str.lower(), on the letters that occur in Answers.
LowerChar(ch) ==
    CASE ch = "Y" -> "y"
      [] ch = "E" -> "e"
      [] ch = "S" -> "s"
      [] ch = "N" -> "n"
      [] OTHER -> ch

Lower(s) == [ i \in 1..Len(s) |-> LowerChar(s[i]) ]

\* Variant: the empty answer counts as yes.
AcceptingWithEmpty == { << "y" >>, << "y", "e", "s" >>, << >> }

\* answer not in {"y", "yes"}
Accepting == { << "y" >>, << "y", "e", "s" >> }

\* if not config.yes: answer = input(...).strip().lower(); anything but
\* y / yes aborts.
Confirm ==
    /\ pc = "confirm"
    /\ IF cfg.yes
         THEN pc' = "commit" /\ outcome' = outcome /\ trace' = trace
              /\ answer' = answer
         ELSE \E a \in Answers :
                /\ answer' = Lower(Strip(a))
                /\ IF answer' \in Accepting
                   THEN pc' = "commit" /\ outcome' = outcome
                        /\ trace' = trace \cup {"prompt_yes"}
                   ELSE pc' = "finally" /\ outcome' = "declined"
                        /\ trace' = trace \cup {"prompt_no"}
    /\ UNCHANGED << world, runs, cfg, fetchState, has_commits, repo_dir,
                    temp_dir, deltaState, stages, prev >>

\* EOFError or KeyboardInterrupt at the prompt: "Aborted.", return.
ConfirmAbort ==
    /\ pc = "confirm"
    /\ ~cfg.yes
    /\ \E e \in {"eof_prompt", "int_prompt"} : trace' = trace \cup {e}
    /\ outcome' = "aborted"
    /\ pc' = "finally"
    /\ UNCHANGED << world, runs, cfg, fetchState, has_commits, repo_dir,
                    temp_dir, deltaState, stages, prev, answer >>

\* Commits this run has created for a day so far.
CreatedOn(d) == Cardinality({ i \in 1..Len(created) : created[i].msg[1] = d })

\* Days of the delta still short of their count; sorted(needed) takes the
\* earliest first.
Pending == { d \in DOMAIN needed : CreatedOn(d) < needed[d] }

\* Variant: the latest pending day is taken first.
CurrentDayLatest == CHOOSE d \in Pending : \A e \in Pending : d >= e

CurrentDay == CHOOSE d \in Pending : \A e \in Pending : d <= e

\* One git commit --allow-empty of create_commits_for_day.
NewCommit == MirrorCommit(CurrentDay, CreatedOn(CurrentDay) + 1, needed[CurrentDay])

\* The loops end after the last commit; push_to_remote comes next.
CreateCommit ==
    /\ pc = "commit"
    /\ Pending # {}
    /\ LET c == NewCommit IN
         /\ created' = Append(created, c)
         /\ IF repo_dir = "P"
              THEN pdir' = [ pdir EXCEPT !.commits = Append(@, c) ] /\ tdir' = tdir
              ELSE tdir' = [ tdir EXCEPT !.commits = Append(@, c) ] /\ pdir' = pdir
         /\ pc' = IF Total(needed) = Len(created) + 1 THEN "push" ELSE "commit"
    /\ stages' = stages \cup {"commit"}
    /\ UNCHANGED << calendar, remoteExists, remote, remote0, runs, cfg, outcome,
                    fetchState, has_commits, repo_dir, temp_dir, existing,
                    needed, wc0, trace, prev, answer >>

\* A git commit fails: run_git prints stderr and calls sys.exit(1).
CommitFail ==
    /\ pc = "commit"
    /\ outcome' = "commit_failed"
    /\ stages' = stages \cup {"commit"}
    /\ pc' = "finally"
    /\ UNCHANGED << world, runs, cfg, fetchState, has_commits, repo_dir,
                    temp_dir, deltaState, trace, prev, answer >>

\* Variant: the interrupt is swallowed inside the loop, which is left for
\* the push.
CommitInterruptPushes ==
    /\ pc = "commit"
    /\ trace' = trace \cup {"int_commit"}
    /\ pc' = "push"
    /\ UNCHANGED << world, runs, cfg, outcome, fetchState, has_commits,
                    repo_dir, temp_dir, deltaState, stages, prev, answer >>

\* KeyboardInterrupt between two commits: "Interrupted.", then finally.
CommitInterrupt ==
    /\ pc = "commit"
    /\ outcome' = "interrupted"
    /\ trace' = trace \cup {"int_commit"}
    /\ pc' = "finally"
    /\ UNCHANGED << world, runs, cfg, fetchState, has_commits, repo_dir,
                    temp_dir, deltaState, stages, prev, answer >>

\* Variant: the push is forced, the remote takes whatever is pushed.
PushOkForced ==
    /\ pc = "push"
    /\ remote' = Wc
    /\ stages' = stages \cup {"push"}
    /\ trace' = trace \cup {"push_attempt"}
    /\ outcome' = "done"
    /\ pc' = "finally"
    /\ UNCHANGED << calendar, remoteExists, remote0, pdir, tdir, runs, cfg,
                    fetchState, has_commits, repo_dir, temp_dir, deltaState, prev,
                    answer >>

\* push_to_remote, accepted by the remote: "Done!".
PushOk ==
    /\ pc = "push"
    /\ PushAccepted(Wc, remote)
    /\ remote' = Wc
    /\ stages' = stages \cup {"push"}
    /\ trace' = trace \cup {"push_attempt"}
    /\ outcome' = "done"
    /\ pc' = "finally"
    /\ UNCHANGED << calendar, remoteExists, remote0, pdir, tdir, runs, cfg,
                    fetchState, has_commits, repo_dir, temp_dir, deltaState, prev,
                    answer >>

\* git push fails (rejected, network, credentials): sys.exit(1).
PushFail ==
    /\ pc = "push"
    /\ stages' = stages \cup {"push"}
    /\ trace' = trace \cup {"push_attempt"}
    /\ outcome' = "push_failed"
    /\ pc' = "finally"
    /\ UNCHANGED << world, runs, cfg, fetchState, has_commits, repo_dir,
                    temp_dir, deltaState, prev, answer >>

\* finally: remove the temporary directory unless --keep-repo; the process
\* ends.
Finally ==
    /\ pc = "finally"
    /\ tdir' = IF temp_dir # "none" /\ ~cfg.keep_repo THEN NoDir ELSE tdir
    /\ pc' = "ended"
    /\ UNCHANGED << calendar, remoteExists, remote, remote0, pdir, runs, cfg,
                    outcome, fetchState, has_commits, repo_dir, temp_dir,
                    deltaState, stages, trace, prev, answer >>

-----------------------------------------------------------------------------
(* The pipeline specification: repeated runs against one destination.      *)

\* What later runs are compared with: the run's range and directory, how
\* it ended, and the commits it created.
Summary ==
    [ local_dir |-> cfg.local_dir, start |-> cfg.start, end |-> cfg.end,
      outcome |-> outcome, created |-> created ]

\* A new invocation of main() with its Config; a temporary directory left
\* by an earlier run is never looked at again.
StartRun ==
    /\ pc = "ended"
    /\ runs < MaxRuns
    /\ \E c \in Configs : cfg' = c /\ chunk_start' = c.start
    /\ prev' = Summary
    /\ runs' = runs + 1
    /\ pc' = "fetch"
    /\ outcome' = "running"
    /\ merged' = EmptyMap
    /\ windows' = << >>
    /\ contributions' = EmptyMap
    /\ has_commits' = FALSE
    /\ repo_dir' = "none"
    /\ temp_dir' = "none"
    /\ existing' = EmptyMap
    /\ needed' = EmptyMap
    /\ wc0' = << >>
    /\ created' = << >>
    /\ stages' = {}
    /\ trace' = {}
    /\ answer' = << >>
    /\ tdir' = NoDir
    /\ UNCHANGED << calendar, remoteExists, remote, remote0, pdir,
                    answer >>

\* The remote before the first run: up to MaxInit commits on the first day.
InitHistories ==
    { [ i \in 1..n |-> ForeignCommit(D1) ] : n \in 0..MaxInit }

Init ==
    /\ Fresh
    /\ calendar \in Calendars
    /\ remoteExists \in BOOLEAN
    /\ remote \in IF remoteExists THEN InitHistories ELSE { << >> }
    /\ remote0 = LoadExisting(remote)

Next ==
    \/ StartRun
    \/ FetchChunkOk \/ FetchChunkFail \/ FetchReturn
    \/ EnsureRepoFound \/ EnsureRepoCreate \/ EnsureRepoCreateFail
    \/ EnsureRepoCheckFail
    \/ PrepareReuse \/ PrepareFresh \/ PrepareFail
    \/ LoadAndDelta \/ LoadFail \/ Confirm \/ ConfirmAbort
    \/ CreateCommit \/ CommitFail \/ CommitInterrupt
    \/ PushOk \/ PushFail
    \/ Finally

Spec == Init /\ [][Next]_vars

-----------------------------------------------------------------------------
(* The reconcile specification: DeltaComputer and CommitEmitter alone, on  *)
(* a cloned working copy, for every target map over the first two days     *)
(* with counts up to MaxTarget and every history holding up to MaxTarget   *)
(* commits on each of them.                                                *)

TargetMaps ==
    UNION { [ S -> 1..MaxTarget ] : S \in SUBSET {D1, D2} }

History(a, b) ==
    [ i \in 1..(a + b) |-> ForeignCommit(IF i <= a THEN D1 ELSE D2) ]

Histories == { History(a, b) : a \in 0..MaxTarget, b \in 0..MaxTarget }

InitReconcile ==
    /\ calendar = [ d \in CalDays |-> 1 ]
    /\ remoteExists = TRUE
    /\ remote \in Histories
    /\ remote0 = LoadExisting(remote)
    /\ pdir = NoDir
    /\ tdir = [ exists |-> TRUE, git |-> TRUE, tracking |-> TRUE, commits |-> remote ]
    /\ runs = 1
    /\ \E y \in BOOLEAN : cfg = [ NoConfig EXCEPT !.yes = y, !.end = D2 ]
    /\ pc = "load"
    /\ outcome = "running"
    /\ chunk_start = D2 + 1
    /\ merged \in TargetMaps \ {EmptyMap}
    /\ windows = << << D1, D2 >> >>
    /\ contributions = merged
    /\ has_commits = FALSE
    /\ repo_dir = "T"
    /\ temp_dir = "T"
    /\ existing = EmptyMap
    /\ needed = EmptyMap
    /\ wc0 = << >>
    /\ created = << >>
    /\ stages = {"ensure", "prepare"}
    /\ trace = {}
    /\ answer = << >>
    /\ prev = NoPrev

NextReconcile ==
    \/ LoadAndDelta \/ LoadFail \/ Confirm \/ ConfirmAbort
    \/ CreateCommit \/ CommitFail \/ CommitInterrupt
    \/ Finally

SpecReconcile == InitReconcile /\ [][NextReconcile]_vars

-----------------------------------------------------------------------------
(* The shared-destination specification: one run, from the repository      *)
(* check on, against a mirror repository that another writer (the tool on  *)
(* another machine, or a person) pushes to as well, with a persistent      *)
(* directory as an earlier run may have left it, on a machine in any of    *)
(* MachineOffsets.                                                         *)

\* Commits another writer may have pushed that the working copy lacks.
MaxOther == 1

SharedCalendar == [ d \in CalDays |-> IF d = D1 THEN MaxCount ELSE 1 ]

\* The target map of the range D1..D2.
SharedTarget == [ d \in {D1, D2} |-> SharedCalendar[d] ]

\* A commit the other writer pushes.
OtherCommit == ForeignCommit(D2)

\* The first commit a run creates on top of history h: the earliest day of
\* the delta, number 1.
FirstCommit(h) ==
    LET n == Delta(SharedTarget, LoadExisting(h))
        d == CHOOSE x \in DOMAIN n : \A e \in DOMAIN n : x <= e
    IN MirrorCommit(d, 1, n[d])

\* The persistent directory before the run: absent, or the working copy an
\* earlier run cloned from (or, the remote being empty then, initialized
\* for) the remote when it held base, with or without the first commit of
\* that run, which was not pushed.
SharedDirs(base) ==
    {NoDir}
    \cup { [ exists |-> TRUE, git |-> TRUE, tracking |-> t, commits |-> base \o u ] :
             t \in (IF base = << >> THEN BOOLEAN ELSE {TRUE}),
             u \in { << >>, << FirstCommit(base) >> } }

InitShared ==
    /\ calendar = SharedCalendar
    /\ remoteExists = TRUE
    /\ \E base \in InitHistories : \E n \in 0..MaxOther :
         /\ remote = base \o [ i \in 1..n |-> OtherCommit ]
         /\ \E l \in {"none", "P"} : \E y \in BOOLEAN : \E z \in MachineOffsets :
              /\ cfg = [ NoConfig EXCEPT !.local_dir = l, !.yes = y,
                                         !.end = D2, !.tz = z ]
              /\ pdir \in IF l = "P" THEN SharedDirs(base) ELSE {NoDir}
    /\ remote0 = LoadExisting(remote)
    /\ tdir = NoDir
    /\ runs = 1
    /\ pc = "ensure"
    /\ outcome = "running"
    /\ chunk_start = D2 + 1
    /\ merged = SharedTarget
    /\ windows = << << D1, D2 >> >>
    /\ contributions = SharedTarget
    /\ has_commits = FALSE
    /\ repo_dir = "none"
    /\ temp_dir = "none"
    /\ existing = EmptyMap
    /\ needed = EmptyMap
    /\ wc0 = << >>
    /\ created = << >>
    /\ stages = {}
    /\ trace = {}
    /\ answer = << >>
    /\ prev = NoPrev

\* The other writer pushes a commit while the run is between loading the
\* counts and pushing.
OtherPush ==
    /\ pc \in {"confirm", "commit", "push"}
    /\ remoteExists
    /\ Len(remote) - CommonLen(remote, Wc, 0) < MaxOther
    /\ remote' = Append(remote, OtherCommit)
    /\ UNCHANGED << calendar, remoteExists, remote0, pdir, tdir, runs, cfg, pc,
                    outcome, fetchState, has_commits, repo_dir, temp_dir,
                    deltaState, stages, trace, prev, answer >>

NextShared ==
    \/ EnsureRepoFound \/ EnsureRepoCheckFail
    \/ PrepareReuse \/ PrepareFresh \/ PrepareFail
    \/ LoadAndDelta \/ LoadFail \/ Confirm \/ ConfirmAbort
    \/ CreateCommit \/ CommitFail \/ CommitInterrupt
    \/ PushOk \/ PushFail
    \/ Finally
    \/ OtherPush

SpecShared == InitShared /\ [][NextShared]_vars

-----------------------------------------------------------------------------
(* Claims.                                                                 *)

\* C3 -- Delta computation: once the delta is computed, a day is in it
\* exactly when it is in the target map with a target above the existing
\* count (a day missing from existing counting as 0), it is then mapped to
\* target - existing, which is strictly positive; and the target
\* {2024-01-01: 3, 2024-01-02: 1} with existing {2024-01-01: 3} gives
\* {2024-01-02: 1}.
C3_DeltaExact ==
    "load" \in stages =>
      /\ DOMAIN needed \subseteq DOMAIN contributions
      /\ \A d \in DOMAIN contributions \cup DOMAIN existing :
           LET e == IF d \in DOMAIN existing THEN existing[d] ELSE 0 IN
           /\ (d \in DOMAIN needed) <=>
                (d \in DOMAIN contributions /\ contributions[d] > e)
           /\ (d \in DOMAIN needed) =>
                (needed[d] = contributions[d] - e /\ needed[d] > 0)
      /\ ( /\ contributions = (Ord(2024, 1, 1) :> 3) @@ (Ord(2024, 1, 2) :> 1)
           /\ existing = (Ord(2024, 1, 1) :> 3) )
         => needed = (Ord(2024, 1, 2) :> 1)

\* C3 witness: the delta was computed for a target of two days of which one
\* is already covered and the other is not.
C3_Witness ==
    /\ "load" \in stages
    /\ contributions = (D1 :> 3) @@ (D2 :> 1)
    /\ existing = (D1 :> 3)
    /\ needed = (D2 :> 1)

\* C5 -- Commit emission is exact and framed: while and after the delta is
\* applied the working copy is the one it started from with the created
\* commits appended; no day outside the delta changes its count and no day
\* of the delta gets more than its delta; every created commit has author
\* and committer time 12:00:00 +00:00 of a day of the delta; when the
\* stage completes each day of the delta has gained exactly its delta; and
\* from an empty working copy the delta {2024-01-01: 3, 2024-01-02: 1}
\* gives exactly 4 commits, 3 on the first day and 1 on the second.
C5_EmissionExact ==
    pc \in {"commit", "push"} =>
      /\ Wc = wc0 \o created
      /\ \A d \in CalDays \ DOMAIN needed : CountOn(Wc, d) = CountOn(wc0, d)
      /\ \A d \in DOMAIN needed : CountOn(Wc, d) - CountOn(wc0, d) <= needed[d]
      /\ \A i \in 1..Len(created) :
           \E d \in DOMAIN needed :
             /\ created[i].at = d * 24 + 12 /\ created[i].atz = 0
             /\ created[i].ct = d * 24 + 12 /\ created[i].ctz = 0
      /\ pc = "push" =>
           /\ \A d \in DOMAIN needed :
                /\ CountOn(Wc, d) - CountOn(wc0, d) = needed[d]
                /\ Cardinality({ i \in 1..Len(created) :
                     created[i].at = d * 24 + 12 }) = needed[d]
           /\ ( wc0 = << >>
                /\ needed = (Ord(2024, 1, 1) :> 3) @@ (Ord(2024, 1, 2) :> 1) )
              => ( /\ Len(Wc) = 4
                   /\ CountOn(Wc, Ord(2024, 1, 1)) = 3
                   /\ CountOn(Wc, Ord(2024, 1, 2)) = 1 )

\* C5 witness: the scenario's delta has been applied to an empty working
\* copy.
C5_Witness ==
    /\ pc = "push"
    /\ wc0 = << >>
    /\ needed = (D1 :> 3) @@ (D2 :> 1)
    /\ Len(created) = 4

\* The current run has the range and the kind of working copy of the
\* previous one.
SameInvocation ==
    /\ runs >= 2
    /\ prev.local_dir = cfg.local_dir
    /\ prev.start = cfg.start
    /\ prev.end = cfg.end

\* C1 -- Idempotence: a run that follows a run which completed ("Done" or
\* "already up to date") with the same date range and the same kind of
\* working copy (both transient, or both the same persistent directory)
\* creates no commit: it never enters the commit or push stage, and its
\* delta, if it gets to compute one, is empty.
C1_Idempotent ==
    (SameInvocation /\ prev.outcome \in {"done", "up_to_date"}) =>
      /\ created = << >>
      /\ pc \notin {"confirm", "commit", "push"}
      /\ "load" \in stages => needed = EmptyMap

\* C1 witness: after a run that pushed commits, a second run with the same
\* range on the same persistent directory has computed its delta.
C1_Witness ==
    /\ SameInvocation
    /\ cfg.local_dir = "P"
    /\ prev.outcome = "done"
    /\ Len(prev.created) >= 2
    /\ outcome = "up_to_date"

\* C2 -- Convergence on the destination: whenever a run has terminated
\* normally ("Done" or "already up to date") the remote holds exactly
\* target[d] commits for every day d of the target map whose remote count
\* started at or below target[d]; and no run raises a day's remote count
\* above its target.
C2_RemoteConverges ==
    /\ (pc = "ended" /\ outcome \in {"done", "up_to_date"}) =>
         \A d \in DOMAIN contributions :
           Get(remote0, d) <= contributions[d] =>
             CountOn(remote, d) = contributions[d]
    /\ \A d \in CalDays :
         CountOn(remote, d) <= IF Get(remote0, d) > calendar[d]
                               THEN Get(remote0, d) ELSE calendar[d]

\* C4 -- Convergence of the working copy: when the commit-creation stage
\* has applied the delta, reloading the existing counts from the working
\* copy gives, for every day of the delta, exactly that day's target.
C4_Converged ==
    pc = "push" =>
      \A d \in DOMAIN needed :
        /\ d \in DOMAIN LoadExisting(Wc)
        /\ LoadExisting(Wc)[d] = contributions[d]

\* C4 witness: a delta over two days was applied to a working copy that
\* already held a commit.
C4_Witness ==
    /\ pc = "push"
    /\ wc0 # << >>
    /\ Cardinality(DOMAIN needed) >= 2
    /\ Len(created) >= 3

\* The windows queried so far tile the range from its start: each spans 1
\* to 365 days inside the range, the first begins at start, each next one
\* begins the day after the previous one ends; once the loop has returned
\* the last one ends at end and every day of the range lies in exactly one.
WindowsTile ==
    /\ \A i \in 1..Len(windows) :
         /\ windows[i][2] - windows[i][1] + 1 >= 1
         /\ windows[i][2] - windows[i][1] + 1 <= 365
         /\ cfg.start <= windows[i][1] /\ windows[i][2] <= cfg.end
    /\ Len(windows) >= 1 => windows[1][1] = cfg.start
    /\ \A i \in 1..(Len(windows) - 1) : windows[i + 1][1] = windows[i][2] + 1
    /\ (pc # "fetch" /\ outcome # "fetch_failed") =>
         /\ Len(windows) >= 1
         /\ windows[Len(windows)][2] = cfg.end
         /\ \A d \in cfg.start..cfg.end :
              Cardinality({ i \in 1..Len(windows) :
                windows[i][1] <= d /\ d <= windows[i][2] }) = 1

\* C6 -- Chunk coverage: for every range with start <= end the windows
\* fetch_contributions queries tile the range (WindowsTile) in every state,
\* and the loop issuing them terminates.
C6_ChunkCoverage == [] WindowsTile /\ <> (pc # "fetch")

\* C6 witness: a range of more than two windows has been fetched completely.
C6_Witness ==
    /\ pc = "ensure"
    /\ Len(windows) = 3
    /\ cfg.end - cfg.start > 2 * 365

\* The range of scenario C has been fetched.
ScenarioC ==
    /\ cfg.start = Ord(2023, 1, 1)
    /\ cfg.end = Ord(2024, 2, 4)
    /\ pc # "fetch"
    /\ outcome # "fetch_failed"

\* C7 as stated -- scenario C: [2023-01-01, 2024-02-04] is a 400-day range
\* and is split into exactly two windows, the first of exactly 365 days
\* ending 2023-12-31, the second covering the remaining 36 days.
C7_ScenarioC_Original ==
    ScenarioC =>
      /\ cfg.end - cfg.start + 1 = 400
      /\ Len(windows) = 2
      /\ windows[1][1] = Ord(2023, 1, 1)
      /\ windows[1][2] = Ord(2023, 12, 31)
      /\ windows[1][2] - windows[1][1] + 1 = 365
      /\ windows[2][2] - windows[2][1] + 1 = 36

\* C7 amended -- scenario C: [2023-01-01, 2024-02-04] is a 400-day range
\* and is split into exactly two windows, the first of exactly 365 days
\* ending 2023-12-31, the second, 2024-01-01 to 2024-02-04, covering the
\* remaining 35 days.
C7_ScenarioC ==
    ScenarioC =>
      /\ cfg.end - cfg.start + 1 = 400
      /\ Len(windows) = 2
      /\ windows[1][1] = Ord(2023, 1, 1)
      /\ windows[1][2] = Ord(2023, 12, 31)
      /\ windows[1][2] - windows[1][1] + 1 = 365
      /\ windows[2][1] = Ord(2024, 1, 1)
      /\ windows[2][2] = Ord(2024, 2, 4)
      /\ windows[2][2] - windows[2][1] + 1 = 35

\* C7 witness: the fetch of scenario C's range has returned.
C7_Witness == ScenarioC /\ pc = "ensure" /\ Len(windows) = 2

\* The run was aborted during commit creation after creating a commit.
AbortedInCommits(o, cr) ==
    o \in {"commit_failed", "interrupted"} /\ cr # << >>

\* C8 as stated -- in every working-copy mode the commits a run created
\* before it was aborted during commit creation remain after the run has
\* ended, and the next run counts them as existing.
C8_PartialProgress_Original ==
    /\ (pc = "ended" /\ AbortedInCommits(outcome, created)) =>
         IF repo_dir = "P"
         THEN pdir.exists /\ pdir.commits = wc0 \o created
         ELSE tdir.exists /\ tdir.commits = wc0 \o created
    /\ (runs >= 2 /\ AbortedInCommits(prev.outcome, prev.created)
          /\ "load" \in stages) =>
         \A d \in CalDays : Get(existing, d) >= CountOn(prev.created, d)

\* C8 amended -- when the aborted run worked in the caller-supplied
\* persistent directory, the commits it created remain in that directory
\* after the run has ended, and a next run on the same directory that gets
\* to load the existing counts counts them, so that its delta for a day is
\* at most the target less the commits created for that day.
C8_PartialProgress ==
    /\ (pc = "ended" /\ AbortedInCommits(outcome, created) /\ repo_dir = "P") =>
         /\ pdir.exists /\ pdir.git
         /\ pdir.commits = wc0 \o created
    /\ (runs >= 2 /\ AbortedInCommits(prev.outcome, prev.created)
          /\ prev.local_dir = "P" /\ cfg.local_dir = "P" /\ "load" \in stages) =>
         \A d \in CalDays :
           /\ Get(existing, d) >= CountOn(prev.created, d)
           /\ d \in DOMAIN needed =>
                needed[d] <= contributions[d] - CountOn(prev.created, d)

\* C8 witness: a run on the persistent directory, after a run on it that
\* was aborted with a commit created, pulled and loaded the counts, and
\* still has commits to create.
C8_Witness ==
    /\ runs >= 2
    /\ AbortedInCommits(prev.outcome, prev.created)
    /\ prev.local_dir = "P" /\ cfg.local_dir = "P"
    /\ "pull" \in trace
    /\ "load" \in stages
    /\ needed # EmptyMap

\* An interrupt arrived at the prompt or during commit creation.
Interrupted == trace \cap {"int_prompt", "int_commit"} # {}

\* C9 -- Graceful abort on interrupt: once an interrupt has arrived at the
\* confirmation prompt or during commit creation, the run only cleans up
\* and ends, it never attempts a push, it creates no further commit and
\* changes neither the remote nor the persistent directory; when it has
\* ended its temporary directory is gone unless --keep-repo was given (and
\* is still there if it was), and a persistent directory is still there.
C9_GracefulAbort ==
    /\ [] ( Interrupted =>
              /\ pc \in {"finally", "ended"}
              /\ "push" \notin stages /\ "push_attempt" \notin trace
              /\ pc = "ended" =>
                   /\ (temp_dir = "T" /\ ~cfg.keep_repo) => ~tdir.exists
                   /\ (temp_dir = "T" /\ cfg.keep_repo) =>
                        (tdir.exists /\ tdir.commits = wc0 \o created)
                   /\ cfg.local_dir = "P" =>
                        (pdir.exists /\ pdir.git /\ pdir.commits = wc0 \o created) )
    /\ [][ (Interrupted /\ Interrupted') =>
              (created' = created /\ remote' = remote /\ pdir' = pdir) ]_vars

\* C9 witness: a run on a temporary directory was interrupted after it had
\* created a commit, and has ended.
C9_Witness ==
    /\ pc = "ended"
    /\ "int_commit" \in trace
    /\ created # << >>
    /\ temp_dir = "T" /\ ~cfg.keep_repo

\* C10 -- Fetch failure is all-or-nothing: a run in which a window's query
\* failed has ended there: the failed window is the last one queried, no
\* later stage was entered (no repository check or creation, no working
\* copy, no delta, no commit, no push) and the partially merged map was
\* never handed on as the target map.
C10_FetchFailureFatal ==
    outcome = "fetch_failed" =>
      /\ pc = "ended"
      /\ windows # << >> /\ windows[Len(windows)][1] = chunk_start
      /\ stages = {}
      /\ trace = {}
      /\ contributions = EmptyMap
      /\ existing = EmptyMap /\ needed = EmptyMap
      /\ created = << >>
      /\ repo_dir = "none" /\ temp_dir = "none"
      /\ tdir = NoDir

\* C10 witness: the query of a middle window failed after an earlier window
\* had put contributions into the merged map.
C10_Witness ==
    /\ outcome = "fetch_failed"
    /\ Len(windows) = 2
    /\ cfg.end = E3
    /\ merged # EmptyMap

\* C11 -- Dry-run writes nothing: a run in no-write mode only fetches: it
\* never enters a later stage (no repository check or creation, no working
\* copy, no delta, no commit, no push attempt), it ends after the fetch
\* with the whole range fetched into the target map, and none of its steps
\* changes the remote repository, the persistent directory or a temporary
\* directory.
C11_DryRunWritesNothing ==
    /\ [] ( (cfg.dry_run /\ runs >= 1) =>
               /\ pc \in {"fetch", "ended"}
               /\ stages = {} /\ trace = {}
               /\ existing = EmptyMap /\ needed = EmptyMap
               /\ created = << >>
               /\ repo_dir = "none" /\ temp_dir = "none"
               /\ tdir = NoDir
               /\ pc = "ended" =>
                    /\ outcome \in {"dry_run", "no_contributions", "fetch_failed"}
                    /\ outcome = "dry_run" =>
                         /\ windows # << >>
                         /\ windows[Len(windows)][2] = cfg.end
                         /\ contributions = merged )
    /\ [][ (cfg.dry_run /\ pc # "ended") =>
              /\ remoteExists' = remoteExists /\ remote' = remote
              /\ pdir' = pdir /\ tdir' = tdir ]_vars

\* C11 witness: a dry run over three windows has ended with a non-empty
\* target map, next to a persistent directory and a remote that hold
\* commits of an earlier run.
C11_Witness ==
    /\ cfg.dry_run
    /\ pc = "ended" /\ outcome = "dry_run"
    /\ Len(windows) = 3
    /\ contributions # EmptyMap
    /\ pdir.commits # << >>
    /\ remote # << >>

\* C14 -- Transient working copy lifecycle: when a run without a persistent
\* directory and without --keep-repo has ended after it reached the
\* preparation of its working copy, no temporary directory holding a
\* working copy is left, on whichever path the run ended.
C14_TransientRemoved ==
    ( /\ pc = "ended"
      /\ cfg.local_dir = "none" /\ ~cfg.keep_repo
      /\ "prepare" \in stages )
    => ~(tdir.exists /\ tdir.git)

\* C15 -- Clone-vs-init decision uses OR semantics: every step in which the
\* non-reuse path (no persistent directory, or one that is not a working
\* copy yet) produces the working copy produces a clone of the remote
\* (its history, a tracked branch) when the metadata heuristic reports
\* history or the commit listing holds a commit, and an empty repository
\* with the remote registered (no commit, no tracked branch) when the
\* heuristic reports none and the listing is empty; never both.
C15_CloneOrInit ==
    [][ (pc = "prepare" /\ ~Reuse /\ pc' = "load") =>
          LET d == IF cfg.local_dir = "P" THEN pdir' ELSE tdir'
              listing == remoteExists /\ Len(remote) > 0
          IN
          /\ d.exists /\ d.git
          /\ (has_commits \/ listing) =>
               /\ d.tracking /\ d.commits = remote
               /\ "clone" \in trace' /\ "init" \notin trace'
          /\ (~has_commits /\ ~listing) =>
               /\ ~d.tracking /\ d.commits = << >>
               /\ "init" \in trace' /\ "clone" \notin trace' ]_vars

\* C15 witness: the heuristic reported no history, the listing held a
\* commit, and the working copy was cloned.
C15_Witness ==
    /\ pc = "load"
    /\ ~has_commits
    /\ "listing_queried" \in trace
    /\ "clone" \in trace
    /\ Wc = remote /\ remote # << >>

\* C16 -- The has-history heuristic is always re-verified: whenever a run
\* has prepared its working copy (reuse with or without pull, clone or
\* init) the commit listing was queried in that run, and a working copy
\* was cloned or pulled only from a remote whose listing holds a commit.
C16_AlwaysReverified ==
    pc = "load" =>
      /\ "listing_queried" \in trace
      /\ (trace \cap {"clone", "pull"} # {}) => remote # << >>

\* C18 -- Repository creation: a create call is made only when the
\* destination is absent, and at most once (the check is left with it);
\* when it succeeds the repository exists with an empty history and the
\* run takes it as history-empty; a name conflict or another creation
\* error, and an existence check answering neither found nor absent, end
\* the run in failure right there: no working copy is prepared, no commit
\* created, no push attempted, and the failing step changes neither the
\* remote nor a directory.
C18_RepoCreation ==
    /\ [] ( /\ "create_call" \in trace => pc # "ensure"
            /\ (trace \cap {"conflict_422", "create_http_error", "check_error"} # {})
                 => outcome = "ensure_failed"
            /\ outcome = "ensure_failed" =>
                 /\ pc = "ended"
                 /\ stages = {"ensure"}
                 /\ trace \cap {"clone", "init", "pull", "push_attempt"} = {}
                 /\ repo_dir = "none" /\ temp_dir = "none" /\ tdir = NoDir
                 /\ existing = EmptyMap /\ needed = EmptyMap
                 /\ created = << >> )
    /\ [][ pc = "ensure" =>
             /\ ("create_call" \in trace') => ~remoteExists
             /\ (~remoteExists /\ pc' = "prepare") =>
                  /\ "create_call" \in trace'
                  /\ remoteExists' /\ remote' = << >>
                  /\ ~has_commits'
             /\ outcome' = "ensure_failed" =>
                  /\ remoteExists' = remoteExists /\ remote' = remote
                  /\ pdir' = pdir /\ tdir' = tdir ]_vars

\* C18 witness: the create call of a run on the persistent directory
\* reported a name conflict and the run has ended.
C18_Witness ==
    /\ pc = "ended"
    /\ outcome = "ensure_failed"
    /\ "conflict_422" \in trace
    /\ cfg.local_dir = "P"
    /\ ~remoteExists

\* The commits this run has created are in emission order: the days never
\* decrease, and the commit at each place is the next one of its day,
\* numbered 1..k with k the day's delta, so a day's commits are consecutive
\* and complete before a later day's first.
EmittedInOrder ==
    /\ \A i \in 1..Len(created) : \A j \in 1..Len(created) :
         i < j => created[i].msg[1] <= created[j].msg[1]
    /\ \A i \in 1..Len(created) :
         LET d == created[i].msg[1] IN
         /\ d \in DOMAIN needed
         /\ created[i].msg[3] = needed[d]
         /\ created[i].msg[2] =
              Cardinality({ j \in 1..i : created[j].msg[1] = d })
         /\ created[i].msg[2] <= needed[d]
         /\ created[i].ct = d * 24 + 12

\* A history is non-decreasing in committer date.
Monotonic(h) ==
    \A i \in 1..Len(h) : \A j \in 1..Len(h) : i < j => h[i].ct <= h[j].ct

\* C19 as stated -- the commits of a run are emitted in ascending day order,
\* each day's consecutively, and the working-copy history that results,
\* the commits that existed before the run included, is non-decreasing in
\* commit date.
C19_Ordered_Original ==
    /\ EmittedInOrder
    /\ pc \in {"commit", "push"} => Monotonic(Wc)

\* C19 amended -- the commits of a run are emitted in ascending day order,
\* each day's consecutively, so the commits the run appends are
\* non-decreasing in commit date; the whole history is non-decreasing when
\* the history the run started from was and held no commit dated after
\* noon of the first day of the delta.
C19_Ordered ==
    /\ EmittedInOrder
    /\ Monotonic(created)
    /\ pc \in {"commit", "push"} =>
         ( ( /\ Monotonic(wc0)
             /\ \A i \in 1..Len(wc0) : \A d \in DOMAIN needed :
                  wc0[i].ct <= d * 24 + 12 )
           => Monotonic(Wc) )

\* C19 witness: a delta of two days with two commits on the first was
\* emitted completely on top of a history that held a commit.
C19_Witness ==
    /\ pc = "push"
    /\ wc0 # << >>
    /\ Cardinality(DOMAIN needed) = 2
    /\ \E d \in DOMAIN needed : needed[d] >= 2
    /\ Len(created) = Total(needed)

\* C12 -- Push is never forced and a rejection is fatal: the step that
\* pushes either is accepted, and then the remote history becomes the
\* local one, which extends what the remote held (a fast-forward), or
\* fails and leaves the remote history exactly as it was; when the remote
\* holds a commit the working copy lacks the push is rejected and the run
\* fails; after the one push attempt the run only cleans up and ends
\* ("Done" or failed), so there is no second attempt, and nothing it does
\* then changes the remote or the persistent directory.
C12_PushNeverForced ==
    /\ [] ( "push_attempt" \in trace =>
              /\ pc \in {"finally", "ended"}
              /\ outcome \in {"done", "push_failed"} )
    /\ [][ /\ (pc = "push" /\ pc' # "push") =>
                /\ "push_attempt" \in trace'
                /\ \/ ( /\ outcome' = "done"
                        /\ IsPrefix(remote, remote')
                        /\ remote' = Wc )
                   \/ ( /\ outcome' = "push_failed"
                        /\ remote' = remote )
                /\ ~IsPrefix(remote, Wc) =>
                     (outcome' = "push_failed" /\ remote' = remote)
           /\ ("push_attempt" \in trace /\ pc # "ended") =>
                (remote' = remote /\ pdir' = pdir /\ created' = created)
         ]_vars

\* C12 witness: the push of a run that created commits was rejected
\* because the remote had gained a commit the working copy lacks, and the
\* run has ended in failure.
C12_Witness ==
    /\ pc = "ended"
    /\ outcome = "push_failed"
    /\ created # << >>
    /\ ~IsPrefix(remote, Wc)
    /\ remote # << >>

\* The commits of a, unchanged and in the same order, are among those of b.
RECURSIVE IsSubseq(_, _)
IsSubseq(a, b) ==
    IF a = << >> THEN TRUE
    ELSE IF b = << >> THEN FALSE
    ELSE IF Head(a) = Head(b) THEN IsSubseq(Tail(a), Tail(b))
    ELSE IsSubseq(a, Tail(b))

\* C13 -- History is append-only: no step of a run removes, changes or
\* reorders a commit of the remote history or of the history in a
\* persistent directory that is a working copy: after the step every
\* commit that was there is still there, with the same dates and message,
\* in the same relative order; the pull with rebase of the reuse path
\* included.
C13_AppendOnly ==
    [][ pc # "ended" =>
          /\ IsSubseq(remote, remote')
          /\ pdir.git => IsSubseq(pdir.commits, pdir'.commits) ]_vars

\* The step in which the reuse path prepares the working copy.
ReuseStep == pc = "prepare" /\ Reuse /\ pc' = "load"

\* The step in which a run on the reuse path loads the existing counts:
\* every commit of the remote is counted, so the delta of a day is at most
\* the target less the remote's commits of that day.
ReuseLoadCountsRemote ==
    ( /\ pc = "load" /\ "load" \in stages'
      /\ repo_dir = "P" /\ trace \cap {"clone", "init"} = {} )
    => \A d \in CalDays :
         /\ Get(existing', d) >= CountOn(remote, d)
         /\ d \in DOMAIN needed' =>
              needed'[d] <= contributions[d] - CountOn(remote, d)

\* C17 as stated -- reuse path: a persistent directory that is a working
\* copy is never cloned into or initialized again; it is pulled with
\* rebase whenever history exists locally or on the remote, before the
\* existing counts are loaded, so that every commit of the remote is in
\* the working copy and is counted as existing.
C17_ReusePath_Original ==
    [][ /\ ReuseStep =>
             /\ trace' \cap {"clone", "init"} = {}
             /\ pdir'.git /\ pdir'.tracking = pdir.tracking
             /\ "load" \notin stages
             /\ (pdir.commits # << >> \/ remote # << >>) => "pull" \in trace'
             /\ IsPrefix(remote, pdir'.commits)
        /\ ReuseLoadCountsRemote ]_vars

\* C17 amended -- reuse path: a persistent directory that is a working
\* copy is never cloned into or initialized again; it is pulled with
\* rebase exactly when the metadata heuristic or the commit listing
\* reports history on the remote (history that is only local does not
\* count), before the existing counts are loaded, so that every commit of
\* the remote is in the working copy and is counted as existing.
C17_ReusePath ==
    [][ /\ ReuseStep =>
             /\ trace' \cap {"clone", "init"} = {}
             /\ pdir'.git /\ pdir'.tracking = pdir.tracking
             /\ "load" \notin stages
             /\ ("pull" \in trace') <=> (has_commits \/ remote # << >>)
             /\ IsPrefix(remote, pdir'.commits)
        /\ ReuseLoadCountsRemote ]_vars

\* C17 witness: a run reused the persistent directory, pulled a commit of
\* the second day that only the remote held, and counted it: the delta
\* has the first day only.
C17_Witness ==
    /\ repo_dir = "P"
    /\ "pull" \in trace
    /\ "load" \in stages
    /\ Get(existing, D2) = 1
    /\ DOMAIN needed = {D1}
    /\ Len(wc0) = Len(remote)

\* Every mirror commit of history h still carries the author date it was
\* created with: noon, UTC offset zero, of the day in its message.
AuthoredAtNoon(h) ==
    \A i \in 1..Len(h) :
      h[i].msg[1] # 0 => (h[i].at = h[i].msg[1] * 24 + 12 /\ h[i].atz = 0)

\* The days a commit of history h may be counted under.
DaysOf(h) ==
    CalDays \cup { (h[i].ct + h[i].ctz) \div 24 : i \in 1..Len(h) }
            \cup { (h[i].at + h[i].atz) \div 24 : i \in 1..Len(h) }

\* Every mirror commit of the history the counts were loaded from is
\* counted under the day it was created for.
CountedUnderItsDay ==
    \A d \in CalDays :
      Get(existing, d) >=
        Cardinality({ i \in 1..Len(wc0) : wc0[i].msg[1] = d })

Refused == trace \cap {"prompt_no", "eof_prompt", "int_prompt"} # {}

\* C21 -- Confirmation gate: in a run without --yes whose delta is not
\* empty, the commit stage is entered, a commit exists or a push was
\* attempted only if the answer, trimmed and lower-cased, is exactly y or
\* yes; the step at the prompt goes on to the commits exactly in that
\* case and itself changes no history; after any other answer, end of
\* input or an interrupt the run only cleans up and ends ("Aborted"),
\* with no commit created, no push attempted and the commits of the
\* working copy and of the remote as they were.
C21_ConfirmationGate ==
    /\ [] ( (runs >= 1 /\ ~cfg.yes) =>
              /\ ( \/ pc \in {"commit", "push"}
                   \/ created # << >>
                   \/ "commit" \in stages
                   \/ "push_attempt" \in trace )
                 => ( /\ answer \in { << "y" >>, << "y", "e", "s" >> }
                      /\ "prompt_yes" \in trace /\ ~Refused )
              /\ Refused =>
                   /\ pc \in {"finally", "ended"}
                   /\ outcome \in {"declined", "aborted"}
                   /\ created = << >>
                   /\ "commit" \notin stages /\ "push_attempt" \notin trace
                   /\ repo_dir = "P" => pdir.commits = wc0
                   /\ (repo_dir = "T" /\ pc = "finally") => tdir.commits = wc0 )
    /\ [][ /\ (pc = "confirm" /\ ~cfg.yes) =>
                /\ (pc' = "commit") <=>
                     ( /\ "prompt_yes" \in trace'
                       /\ answer' \in { << "y" >>, << "y", "e", "s" >> } )
                /\ (pc' # "commit") => (pc' = "finally" /\ Refused')
                /\ remote' = remote /\ pdir' = pdir /\ tdir' = tdir
                /\ created' = created
           /\ (Refused /\ pc # "ended") =>
                /\ remote' = remote /\ pdir' = pdir
                /\ tdir'.commits = tdir.commits \/ tdir' = NoDir
         ]_vars
    /\ [] ( /\ Lower(Strip(<< " ", "Y", "e", "S", "\t" >>)) = << "y", "e", "s" >>
            /\ Lower(Strip(<< "y", " ", "e", "s" >>)) = << "y", " ", "e", "s" >>
            /\ Lower(Strip(<< "N" >>)) = << "n" >> )

\* C21 witness: the operator's answer, trimmed and lower-cased, was yes,
\* and the run created its commits and pushed them.
C21_Witness ==
    /\ ~cfg.yes
    /\ answer = << "y", "e", "s" >>
    /\ outcome = "done"
    /\ Len(created) >= 2
    /\ remote = Wc

=============================================================================
